---- MODULE Spec2Model ----
(***************************************************************************)
(* Model of sample/edit_fencing.py: main(), the command-line driver that   *)
(* conditions the motion-diffusion sampler on an input motion and an       *)
(* inpainting mask, samples num_repetitions batches and writes the         *)
(* results and the videos.                                                 *)
(*                                                                         *)
(* One run of main() is one behaviour.  pc is the position in main(); the  *)
(* imported functions (loader, model, sampler, plotting) are opaque and    *)
(* appear only through what main() passes to them and reads from them.     *)
(* A tensor is its shape, its kind (numpy array or torch tensor) and a tag  *)
(* for its contents, except the inpainting mask, which is kept element by  *)
(* element.  A path is the sequence of its pieces.  Tensors are indexed    *)
(* from 0, like the code.                                                  *)
(***************************************************************************)
EXTENDS Integers, Sequences, FiniteSets, TLC

VARIABLES pc, exc, args, out_path, fs, max_frames, lengths, input_motions,
          feat_np, model, y, mask_np, gt_frames_per_sample, rep_i,
          calls, all_motions, all_lengths, n_joints, sample_i, rep_j, rep_files, cmds

vars == <<pc, exc, args, out_path, fs, max_frames, lengths, input_motions,
          feat_np, model, y, mask_np, gt_frames_per_sample, rep_i,
          calls, all_motions, all_lengths, n_joints, sample_i, rep_j, rep_files, cmds>>

(* ------------------------------ bounds --------------------------------- *)

MaxSamples == 2

MaxReps == 2

MaxFrames == 3

\* prefix_end and suffix_start are ratios n / RatioDen
RatioDen == 2

\* model.njoints and model.nfeats of the created model
NJoints == 2

NFeats == 1

(* ------------------------------ helpers -------------------------------- *)

Max(a, b) == IF a >= b THEN a ELSE b

Min(a, b) == IF a <= b THEN a ELSE b

\* int(ratio * length) for ratio = num / RatioDen: Python's int() truncates toward zero
PyIntMul(num, length) ==
    IF num * length >= 0 THEN (num * length) \div RatioDen
    ELSE -((-(num * length)) \div RatioDen)

\* list(range(a, b))
PyRange(a, b) == [k \in 1..Max(b - a, 0) |-> a + k - 1]

\* a slice bound of x[start:end] on a dimension of size n, as Python normalises it
SliceBound(k, n) == IF k < 0 THEN Max(k + n, 0) ELSE Min(k, n)

\* the indices x[start:end] selects on a dimension of size n
SliceIndices(start, end, n) ==
    {f \in 0..(n - 1) : SliceBound(start, n) <= f /\ f < SliceBound(end, n)}

\* '{:02d}'.format(n)
Fmt02(n) == IF n < 10 THEN "0" \o ToString(n) ELSE ToString(n)

ElemsOf(s) == {s[k] : k \in DOMAIN s}

(* --------------------------- values of main() -------------------------- *)

EditModes == {"in_between", "upper_body"}

\* the numerators of prefix_end and suffix_start: the ratios 0, 1/RatioDen, 1 and
\* 1 + 1/RatioDen
Ratios == {0, 1, RatioDen, RatioDen + 1}

NoExc == [type |-> "None", line |-> 0, shape |-> <<>>]

Unset == [data |-> "unset", shape |-> <<>>, kind |-> "unset"]

\* args.text_condition of the runs modelled: '', the unconditioned edit
TextCondition == ""

\* out_path (lines 38-52) in pieces: with and without '.npy' in a directory name
OutPaths == {<<"save/", "edit_run", "_000001_seed10">>,
             <<"save/", "edit_run", ".npy", "_000001_seed10">>}

\* s.replace('.npy', new) on a path in pieces: every '.npy' of the path is replaced
ReplaceNpy(path, new) == [k \in DOMAIN path |-> IF path[k] = ".npy" THEN new ELSE path[k]]

\* os.path.join(out_path, 'results.npy')
NpyPath(dir) == dir \o <<"/", "results", ".npy">>

\* the directory of a path made by NpyPath and ReplaceNpy
DirOf(path) == SubSeq(path, 1, Len(path) - 3)

\* an array indexed from 0 as a list
ToSeq(a) == [k \in 1..Cardinality(DOMAIN a) |-> a[k - 1]]

\* np.concatenate(arrays, axis=0) of a non-empty list of arrays
RECURSIVE Concatenate(_)
Concatenate(arrays) ==
    IF arrays = <<>> THEN <<>> ELSE Head(arrays) \o Concatenate(Tail(arrays))

\* the first k elements of a list: list[:k]
Take(list, k) == SubSeq(list, 1, Min(Max(k, 0), Len(list)))

\* n_joints = 22 if sample.shape[1] == 263 else 21
NJointsOf(shape) == IF shape[2] = 263 THEN 22 ELSE 21

\* inv_transform, recover_from_ric, view and permute: joint positions (B, n_joints, 3, T)
RecoverXyz(t, nj) == [data |-> "xyz", shape |-> <<t.shape[1], nj, 3, t.shape[4]>>, kind |-> "np"]

NoMask == [loaded |-> FALSE, shape |-> <<>>, data |-> <<>>]

\* the shapes np.load(args.mask_path) can have: 0-d, 1-d of any length, 2-d with one column
MaskShapes ==
    {<<>>} \cup {<<n>> : n \in 0..(MaxFrames + 1)} \cup {<<n, 1>> : n \in 1..MaxFrames}

\* the contents of a mask file of n flags: all True, all False, every other frame
MaskContents(n) ==
    {[f \in 0..(n - 1) |-> TRUE], [f \in 0..(n - 1) |-> FALSE],
     [f \in 0..(n - 1) |-> f % 2 = 1]}

\* humanml_utils.HML_LOWER_BODY_MASK, one flag per feature row: True is lower body data
HML_LOWER_BODY_MASK == [j \in 0..(NJoints - 1) |-> j = 0]

\* the directory out_path before the run: absent, or present with files of an earlier run
InitialDirs == {[exists |-> FALSE, files |-> {}],
                [exists |-> TRUE, files |-> {"results.npy", "sample00.mp4"}]}

(* ------------------------- the inpainting mask -------------------------- *)

\* torch.ones_like(input_motions, dtype=torch.bool)
OnesLike(shape) ==
    [i \in 0..(shape[1] - 1) |-> [j \in 0..(shape[2] - 1) |->
        [c \in 0..(shape[3] - 1) |-> [f \in 0..(shape[4] - 1) |-> TRUE]]]]

\* mask[i, :, :, start:end] = False
SetSliceFalse(mask, i, start, end, n) ==
    [mask EXCEPT ![i] = [j \in DOMAIN mask[i] |-> [c \in DOMAIN mask[i][j] |->
        [f \in DOMAIN mask[i][j][c] |->
            IF f \in SliceIndices(start, end, n) THEN FALSE ELSE mask[i][j][c][f]]]]]

\* start_idx, end_idx = int(args.prefix_end * length), int(args.suffix_start * length)
StartIdx(a, length) == PyIntMul(a.prefix_end, length)

EndIdx(a, length) == PyIntMul(a.suffix_start, length)

\* the for loop of the in_between branch, samples 0..k-1 done
RECURSIVE InBetweenMask(_, _, _, _, _)
InBetweenMask(mask, a, lens, n, k) ==
    IF k = 0 THEN mask
    ELSE SetSliceFalse(InBetweenMask(mask, a, lens, n, k - 1), k - 1,
                       StartIdx(a, lens[k - 1]), EndIdx(a, lens[k - 1]), n)

\* gt_frames_per_sample[i] = list(range(0, start_idx)) + list(range(end_idx, max_frames))
InBetweenGtFrames(a, length, n) ==
    PyRange(0, StartIdx(a, length)) \o PyRange(EndIdx(a, length), n)

\* tensor(HML_LOWER_BODY_MASK).unsqueeze(0).unsqueeze(-1).unsqueeze(-1).repeat(B, 1, F, T)
UpperBodyMask(shape) ==
    [i \in 0..(shape[1] - 1) |-> [j \in 0..(NJoints - 1) |->
        [c \in 0..(shape[3] - 1) |-> [f \in 0..(shape[4] - 1) |-> HML_LOWER_BODY_MASK[j]]]]]

\* a check of the first dimension alone
MaskShapeOkFirstDim(shape, n) == shape # <<>> /\ shape[1] = n

\* assert mask_np.shape == (max_frames,)
MaskShapeOk(shape, n) == shape = <<n>>

\* mask[i, :, :, :] = mask_t for every sample i
ApplyMaskFile(mask, data) ==
    [i \in DOMAIN mask |-> [j \in DOMAIN mask[i] |-> [c \in DOMAIN mask[i][j] |->
        [f \in DOMAIN mask[i][j][c] |-> data[f]]]]]

\* the increasing sequence of the elements of a set of integers
RECURSIVE SortedSeq(_)
SortedSeq(S) ==
    IF S = {} THEN <<>>
    ELSE LET m == CHOOSE x \in S : \A z \in S : x <= z
         IN <<m>> \o SortedSeq(S \ {m})

\* mask_np.nonzero()[0].tolist()
NonZero(data) == SortedSeq({f \in DOMAIN data : data[f]})

(* ------------------------------- files --------------------------------- *)

InputMotionFile(i) == "input_motion" \o Fmt02(i) \o ".mp4"

RepFile(i, r) == "sample" \o Fmt02(i) \o "_rep" \o Fmt02(r) \o ".mp4"

AllRepFile(i) == "sample" \o Fmt02(i) \o ".mp4"

ResultFiles == {"results.npy", "results.txt", "results_len.txt"}

\* save_multiple_samples(out_path, {'all': all_file_template}, animations, ...)
AllSamplesFile(n) == "samples_00_to_" \o Fmt02(n - 1) \o ".mp4"

(* ------------------------------ the run -------------------------------- *)

\* a strict comparison in place of <=
BatchSizeOkStrict(a) == a.num_samples < a.batch_size

\* assert args.num_samples <= args.batch_size
BatchSizeOk(a) == a.num_samples <= a.batch_size

\* args.batch_size = args.num_samples
SetBatchSize(a) == [a EXCEPT !.batch_size = a.num_samples]

\* a loop that runs one repetition too many
RepLoopCondOffByOne(r, a) == r <= a.num_repetitions

\* for rep_i in range(args.num_repetitions)
RepLoopCond(r, a) == r < a.num_repetitions

\* d[key] = value on a dict
DictSet(d, key, value) == (key :> value) @@ d

\* model_kwargs['y'] replaced by a dict that holds the scale alone
SetScaleReplacing(d, a) ==
    DictSet(<<>>, "scale", [n |-> a.batch_size, value |-> "guidance_param"])

\* model_kwargs['y']['scale'] = torch.ones(args.batch_size) * args.guidance_param
SetScale(d, a) == DictSet(d, "scale", [n |-> a.batch_size, value |-> "guidance_param"])

\* the shape main() asks p_sample_loop for
SampleShape(a, m, n) == <<a.batch_size, m.njoints, m.nfeats, n>>

Raise(type, line, shape) ==
    /\ pc' = "raised"
    /\ exc' = [type |-> type, line |-> line, shape |-> shape]

Init ==
    /\ pc = "check_batch"
    /\ exc = NoExc
    /\ args \in [num_samples : 1..MaxSamples, batch_size : 1..MaxSamples,
                 num_repetitions : 0..MaxReps, edit_mode : EditModes,
                 prefix_end : Ratios, suffix_start : Ratios,
                 mask_path : {"", "mask.npy"}]
    /\ out_path \in OutPaths
    /\ fs \in InitialDirs
    /\ max_frames = 0
    /\ lengths = <<>>
    /\ input_motions = Unset
    /\ feat_np = Unset
    /\ model = [created |-> FALSE, data_rep |-> "unset", njoints |-> 0, nfeats |-> 0]
    /\ y = <<>>
    /\ mask_np = NoMask
    /\ gt_frames_per_sample = <<>>
    /\ rep_i = 0
    /\ calls = <<>>
    /\ all_motions = <<>>
    /\ all_lengths = <<>>
    /\ n_joints = 0
    /\ sample_i = 0
    /\ rep_j = 0
    /\ rep_files = <<>>
    /\ cmds = <<>>

\* lines 55-61: the batch-size assertion, then batch_size = num_samples
CheckBatch ==
    /\ pc = "check_batch"
    /\ IF BatchSizeOk(args)
       THEN /\ args' = SetBatchSize(args)
            /\ pc' = "load_motion"
            /\ exc' = exc
       ELSE /\ Raise("AssertionError", 55, <<>>)
            /\ args' = args
    /\ UNCHANGED <<out_path, fs, max_frames, lengths, input_motions, feat_np, model, y,
                   mask_np, gt_frames_per_sample, rep_i, calls, all_motions, all_lengths, n_joints, sample_i, rep_j,
                   rep_files, cmds>>

\* lines 63-66: feat_np = np.load(args.input_motion_path) and its loader: a batch of any
\* number of motions, whatever num_samples is; the last dimension is the frame count
LoadMotion ==
    /\ pc = "load_motion"
    /\ \E b \in 1..MaxSamples, n \in 1..MaxFrames :
          feat_np' = [data |-> "feat_np", shape |-> <<b, NJoints, NFeats, n>>, kind |-> "np"]
    /\ pc' = "create_model"
    /\ UNCHANGED <<exc, args, out_path, fs, max_frames, lengths, input_motions, model, y,
                   mask_np, gt_frames_per_sample, rep_i, calls, all_motions, all_lengths, n_joints, sample_i, rep_j,
                   rep_files, cmds>>

\* lines 68-76: create_model_and_diffusion, load_saved_model, the classifier-free wrapper
CreateModel ==
    /\ pc = "create_model"
    /\ \E r \in {"hml_vec", "rot6d"} :
          model' = [created |-> TRUE, data_rep |-> r, njoints |-> NJoints, nfeats |-> NFeats]
    /\ pc' = "next_batch"
    /\ UNCHANGED <<exc, args, out_path, fs, max_frames, lengths, input_motions, feat_np, y,
                   mask_np, gt_frames_per_sample, rep_i, calls, all_motions, all_lengths, n_joints, sample_i, rep_j,
                   rep_files, cmds>>

\* lines 78-84: input_motions, model_kwargs = next(iterator): one length per motion of
\* the batch; the text of every one of the num_samples samples
NextBatch ==
    /\ pc = "next_batch"
    /\ input_motions' = [feat_np EXCEPT !.kind = "torch"]
    /\ \E lens \in [0..(feat_np.shape[1] - 1) -> 1..feat_np.shape[4]] :
          /\ lengths' = lens
          /\ y' = DictSet(DictSet(<<>>, "lengths", lens), "text",
                          [i \in 0..(args.num_samples - 1) |-> TextCondition])
    /\ pc' = "build_mask"
    /\ UNCHANGED <<exc, args, out_path, fs, max_frames, feat_np, model,
                   mask_np, gt_frames_per_sample, rep_i, calls, all_motions, all_lengths, n_joints, sample_i, rep_j,
                   rep_files, cmds>>

\* lines 87-104: max_frames, inpainted_motion and the inpainting mask of the edit mode
BuildMask ==
    /\ pc = "build_mask"
    /\ LET n == input_motions.shape[4]
           y1 == DictSet(y, "inpainted_motion", input_motions)
       IN /\ max_frames' = n
          /\ IF args.edit_mode = "in_between"
             THEN /\ y' = DictSet(y1, "inpainting_mask",
                                  InBetweenMask(OnesLike(input_motions.shape), args,
                                                y["lengths"], n, Cardinality(DOMAIN y["lengths"])))
                  /\ gt_frames_per_sample' =
                        [i \in DOMAIN y["lengths"] |-> InBetweenGtFrames(args, y["lengths"][i], n)]
             ELSE IF args.edit_mode = "upper_body"
             THEN /\ y' = DictSet(y1, "inpainting_mask", UpperBodyMask(input_motions.shape))
                  /\ gt_frames_per_sample' = <<>>
             ELSE /\ y' = y1
                  /\ gt_frames_per_sample' = <<>>
    /\ pc' = "load_mask"
    /\ UNCHANGED <<exc, args, out_path, fs, lengths, input_motions, feat_np, model,
                   mask_np, rep_i, calls, all_motions, all_lengths, n_joints, sample_i, rep_j, rep_files, cmds>>

\* the number of elements of an array of the given shape
RECURSIVE Size(_)
Size(shape) == IF shape = <<>> THEN 1 ELSE Head(shape) * Size(Tail(shape))

\* lines 107-114: the mask file, its shape assertion, the same mask for every sample
LoadMask ==
    /\ pc = "load_mask"
    /\ IF args.mask_path = ""
       THEN /\ pc' = "sample_loop"
            /\ UNCHANGED <<exc, y, mask_np, gt_frames_per_sample>>
       ELSE \E shape \in MaskShapes :
               IF ~MaskShapeOk(shape, max_frames)
               THEN /\ Raise("AssertionError", 109, shape)
                    /\ UNCHANGED <<y, mask_np, gt_frames_per_sample>>
               ELSE \E data \in MaskContents(Size(shape)) :
                       IF "inpainting_mask" \notin DOMAIN y
                       THEN /\ Raise("KeyError", 113, <<>>)
                            /\ UNCHANGED <<y, mask_np, gt_frames_per_sample>>
                       ELSE /\ mask_np' = [loaded |-> TRUE, shape |-> shape, data |-> data]
                            /\ y' = DictSet(y, "inpainting_mask",
                                            ApplyMaskFile(y["inpainting_mask"], data))
                            /\ gt_frames_per_sample' =
                                  [i \in DOMAIN y["lengths"] |-> NonZero(data)]
                            /\ pc' = "sample_loop"
                            /\ exc' = exc
    /\ UNCHANGED <<args, out_path, fs, max_frames, lengths, input_motions, feat_np, model,
                   rep_i, calls, all_motions, all_lengths, n_joints, sample_i, rep_j, rep_files, cmds>>

\* lines 120-153: one repetition: the scale, the call of p_sample_loop, the sample kept
SampleRep ==
    /\ pc = "sample_loop"
    /\ RepLoopCond(rep_i, args)
    /\ y' = SetScale(y, args)
    /\ calls' = Append(calls, [rep_i |-> rep_i,
                               shape |-> SampleShape(args, model, max_frames),
                               y |-> y'])
    /\ n_joints' = IF model.data_rep = "hml_vec"
                   THEN NJointsOf(SampleShape(args, model, max_frames))
                   ELSE n_joints
    /\ all_motions' = Append(all_motions,
                             [i \in 1..args.batch_size |-> [rep |-> rep_i, i |-> i - 1]])
    /\ all_lengths' = Append(all_lengths, ToSeq(y["lengths"]))
    /\ rep_i' = rep_i + 1
    /\ UNCHANGED <<pc, exc, args, out_path, fs, max_frames, lengths, input_motions, feat_np,
                   model, mask_np, gt_frames_per_sample, sample_i, rep_j, rep_files, cmds>>

\* lines 156-159: the loop is over; np.concatenate raises ValueError on an empty list;
\* the motions and the lengths are cut to total_num_samples
Collect ==
    /\ pc = "sample_loop"
    /\ ~RepLoopCond(rep_i, args)
    /\ IF all_motions = <<>>
       THEN /\ Raise("ValueError", 156, <<>>)
            /\ UNCHANGED <<all_motions, all_lengths>>
       ELSE /\ all_motions' = Take(Concatenate(all_motions),
                                   args.num_samples * args.num_repetitions)
            /\ all_lengths' = Take(Concatenate(all_lengths),
                                   args.num_samples * args.num_repetitions)
            /\ pc' = "prepare_out"
            /\ exc' = exc
    /\ UNCHANGED <<args, out_path, fs, max_frames, lengths, input_motions, feat_np, model, y,
                   mask_np, gt_frames_per_sample, rep_i, calls, n_joints, sample_i, rep_j,
                   rep_files, cmds>>

\* lines 161-163: shutil.rmtree(out_path) when it exists, then os.makedirs(out_path)
PrepareOut ==
    /\ pc = "prepare_out"
    /\ fs' = [exists |-> TRUE, files |-> {}]
    /\ pc' = "save_results"
    /\ UNCHANGED <<exc, args, out_path, max_frames, lengths, input_motions, feat_np, model, y,
                   mask_np, gt_frames_per_sample, rep_i, calls, all_motions, all_lengths, n_joints, sample_i, rep_j,
                   rep_files, cmds>>

\* lines 165-173: results.npy, then results.txt and results_len.txt at npy_path with
\* every '.npy' replaced: open() raises FileNotFoundError when that changes the directory
SaveResults ==
    /\ pc = "save_results"
    /\ IF DirOf(ReplaceNpy(NpyPath(out_path), ".txt")) = out_path
       THEN /\ fs' = [fs EXCEPT !.files = @ \cup ResultFiles]
            /\ pc' = "vis_setup"
            /\ exc' = exc
       ELSE /\ fs' = [fs EXCEPT !.files = @ \cup {"results.npy"}]
            /\ Raise("FileNotFoundError", 170, <<>>)
    /\ UNCHANGED <<args, out_path, max_frames, lengths, input_motions, feat_np, model, y,
                   mask_np, gt_frames_per_sample, rep_i, calls, all_motions, all_lengths, n_joints, sample_i, rep_j,
                   rep_files, cmds>>

\* lines 175-190: with data_rep hml_vec input_motions becomes the numpy array of the
\* joint positions; the skeleton, the file templates, the animations array
VisSetup ==
    /\ pc = "vis_setup"
    /\ input_motions' = IF model.data_rep = "hml_vec"
                        THEN RecoverXyz(input_motions, n_joints)
                        ELSE input_motions
    /\ sample_i' = 0
    /\ pc' = "vis_sample"
    /\ UNCHANGED <<exc, args, out_path, fs, max_frames, lengths, feat_np, model, y,
                   mask_np, gt_frames_per_sample, rep_i, calls, all_motions, all_lengths, n_joints, rep_j,
                   rep_files, cmds>>

\* lines 192-198: the next sample: its length and its input motion are indexed in the
\* loader's batch (IndexError past its end); transpose(2, 0, 1) is numpy's, a torch
\* tensor raises TypeError; rep_files starts with the input motion's video path, whose
\* plot_3d_motion call (lines 199-203) is commented out
VisSample ==
    /\ pc = "vis_sample"
    /\ sample_i < args.num_samples
    /\ IF sample_i \notin DOMAIN y["lengths"]
       THEN /\ Raise("IndexError", 194, <<>>)
            /\ UNCHANGED <<rep_files, rep_j>>
       ELSE IF input_motions.kind = "torch"
       THEN /\ Raise("TypeError", 195, <<>>)
            /\ UNCHANGED <<rep_files, rep_j>>
       ELSE /\ rep_files' = <<InputMotionFile(sample_i)>>
            /\ rep_j' = 0
            /\ pc' = "vis_rep"
            /\ exc' = exc
    /\ UNCHANGED <<args, out_path, fs, max_frames, lengths, input_motions, feat_np,
                   model, y, mask_np, gt_frames_per_sample, rep_i, calls, all_motions, all_lengths, n_joints,
                   sample_i, cmds>>

\* plot_3d_motion(animation_save_path, ...): the video of one repetition at its save path
PlotMotion(dir, file) == [dir EXCEPT !.files = @ \cup {file}]

\* lines 204-219: one repetition of one sample is plotted; its length is
\* all_lengths[rep_i*batch_size + sample_i], IndexError past the end of all_lengths
VisRep ==
    /\ pc = "vis_rep"
    /\ rep_j < args.num_repetitions
    /\ IF rep_j * args.batch_size + sample_i >= Len(all_lengths)
       THEN /\ Raise("IndexError", 210, <<>>)
            /\ UNCHANGED <<rep_files, fs, rep_j>>
       ELSE /\ rep_files' = Append(rep_files, RepFile(sample_i, rep_j))
            /\ fs' = PlotMotion(fs, RepFile(sample_i, rep_j))
            /\ rep_j' = rep_j + 1
            /\ UNCHANGED <<pc, exc>>
    /\ UNCHANGED <<args, out_path, max_frames, lengths, input_motions, feat_np,
                   model, y, mask_np, gt_frames_per_sample, rep_i, calls, all_motions, all_lengths, n_joints,
                   sample_i, cmds>>

\* ffmpeg -y ... -i f1 -i f2 ... -filter_complex hstack=inputs=k out: the output is
\* written when every input file exists
RunFfmpeg(dir, cmd) ==
    IF ElemsOf(cmd.inputs) \subseteq dir.files
    THEN [dir EXCEPT !.files = @ \cup {cmd.output}]
    ELSE dir

\* lines 222-227: the hstack command of one sample
Ffmpeg ==
    /\ pc = "vis_rep"
    /\ ~(rep_j < args.num_repetitions)
    /\ LET cmd == [inputs |-> rep_files, declared |-> args.num_repetitions + 1,
                   output |-> AllRepFile(sample_i)]
       IN /\ cmds' = Append(cmds, cmd)
          /\ fs' = RunFfmpeg(fs, cmd)
    /\ sample_i' = sample_i + 1
    /\ pc' = "vis_sample"
    /\ UNCHANGED <<exc, args, out_path, max_frames, lengths, input_motions, feat_np,
                   model, y, mask_np, gt_frames_per_sample, rep_i, calls, all_motions, all_lengths, n_joints,
                   rep_j, rep_files>>

\* lines 229-232: save_multiple_samples writes the video of all samples; the run is done
SaveMultiple ==
    /\ pc = "vis_sample"
    /\ ~(sample_i < args.num_samples)
    /\ fs' = [fs EXCEPT !.files = @ \cup {AllSamplesFile(args.num_samples)}]
    /\ pc' = "done"
    /\ UNCHANGED <<exc, args, out_path, max_frames, lengths, input_motions, feat_np,
                   model, y, mask_np, gt_frames_per_sample, rep_i, calls, all_motions, all_lengths, n_joints,
                   sample_i, rep_j, rep_files, cmds>>

Next ==
    \/ CheckBatch
    \/ LoadMotion
    \/ CreateModel
    \/ NextBatch
    \/ BuildMask
    \/ LoadMask
    \/ SampleRep
    \/ Collect
    \/ PrepareOut
    \/ SaveResults
    \/ VisSetup
    \/ VisSample
    \/ VisRep
    \/ Ffmpeg
    \/ SaveMultiple

Spec == Init /\ [][Next]_vars

(* ------------------------------ claims --------------------------------- *)

AfterLoop == {"prepare_out", "save_results", "vis_setup", "vis_sample", "vis_rep", "done"}

BeforeOutput == {"check_batch", "load_motion", "create_model", "next_batch", "build_mask",
                 "load_mask", "sample_loop", "prepare_out"}

BatchAssertFailed == pc = "raised" /\ exc.type = "AssertionError" /\ exc.line = 55

MaskAssertFailed == pc = "raised" /\ exc.type = "AssertionError" /\ exc.line = 109

\* C1: p_sample_loop is called once per rep_i, in the order 0, 1, ..., never more than
\* num_repetitions times and exactly num_repetitions times once the loop is left; every
\* call asks for the shape (num_samples, njoints, nfeats, last dimension of the input
\* motion); after the last call no further call is possible and the one step the run
\* can take leads to the writing of the results (an exception after the last call is
\* raised at line 170 or later, when results.npy is written).
C1_SamplingLoop ==
    /\ \A k \in 1..Len(calls) :
          /\ calls[k].rep_i = k - 1
          /\ calls[k].shape = <<args.num_samples, model.njoints, model.nfeats,
                                feat_np.shape[4]>>
    /\ Len(calls) <= args.num_repetitions
    /\ pc \in AfterLoop => Len(calls) = args.num_repetitions
    /\ (calls # <<>> /\ Len(calls) = args.num_repetitions) =>
          /\ pc \in {"sample_loop"} \cup AfterLoop \/ (pc = "raised" /\ exc.line >= 170)
          /\ ~ENABLED SampleRep
          /\ pc = "sample_loop" => ENABLED (Collect /\ pc' = "prepare_out")

C1_Witness ==
    /\ pc = "save_results"
    /\ args.num_repetitions = 2
    /\ args.num_samples = 2
    /\ Len(calls) = 2

\* C2: at every call of p_sample_loop model_kwargs['y'] holds 'inpainted_motion', equal
\* to the input motion loaded from the file, and 'inpainting_mask'; the two entries, and
\* every entry but 'scale', are the same in all the calls of a run.
C2_InpaintingEntries ==
    \A k \in 1..Len(calls) :
        /\ args.edit_mode \in EditModes
        /\ {"inpainted_motion", "inpainting_mask"} \subseteq DOMAIN calls[k].y
        /\ calls[k].y["inpainted_motion"] = [feat_np EXCEPT !.kind = "torch"]
        /\ calls[k].y["inpainting_mask"] = y["inpainting_mask"]
        /\ \A j \in 1..Len(calls) :
              /\ DOMAIN calls[j].y = DOMAIN calls[k].y
              /\ \A key \in DOMAIN calls[k].y \ {"scale"} : calls[j].y[key] = calls[k].y[key]

C2_Witness ==
    /\ Len(calls) = 2
    /\ args.edit_mode = "upper_body"
    /\ mask_np.loaded
    /\ \E f \in DOMAIN mask_np.data : mask_np.data[f]
    /\ \E f \in DOMAIN mask_np.data : ~mask_np.data[f]

\* C3: a mask whose shape is not (max_frames,) ends the run with the assertion of line
\* 109 before any call of p_sample_loop and with the output directory as it was before
\* the run; a run that goes on with a mask file has a mask of shape (max_frames,); no
\* step before the output directory is recreated changes it.
C3_MaskShapeAborts ==
    /\ [](MaskAssertFailed =>
            /\ exc.shape # <<max_frames>>
            /\ calls = <<>> /\ all_motions = <<>> /\ cmds = <<>>
            /\ fs \in InitialDirs)
    /\ [](mask_np.loaded => mask_np.shape = <<max_frames>>)
    /\ []((args.mask_path # "" /\ calls # <<>>) => mask_np.loaded)
    /\ [][(pc' \in BeforeOutput \/ (pc' = "raised" /\ exc'.line < 161)) => fs' = fs]_vars

C3_Witness ==
    /\ MaskAssertFailed
    /\ exc.shape = <<max_frames + 1>>
    /\ fs.exists

\* C4: num_samples > batch_size ends the run with the assertion of line 55 before the
\* input motion is loaded, the model is created, anything is sampled or written;
\* otherwise batch_size is num_samples from then on and every sampled batch has
\* num_samples entries.
C4_BatchSize ==
    /\ [](BatchAssertFailed =>
            /\ args.num_samples > args.batch_size
            /\ feat_np = Unset /\ input_motions = Unset /\ ~model.created
            /\ calls = <<>> /\ all_motions = <<>> /\ cmds = <<>>
            /\ fs \in InitialDirs)
    /\ []((pc # "check_batch" /\ ~BatchAssertFailed) => args.batch_size = args.num_samples)
    /\ [](\A k \in 1..Len(calls) :
            /\ calls[k].shape[1] = args.num_samples
            /\ pc = "sample_loop" => Len(all_motions[k]) = args.num_samples)
    /\ [][(pc = "check_batch" /\ args.num_samples > args.batch_size) =>
            BatchAssertFailed' /\ args' = args]_vars
    /\ [][(pc = "check_batch" /\ args.num_samples <= args.batch_size) =>
            pc' = "load_motion" /\ args'.num_samples = args.num_samples]_vars

C4_Witness ==
    /\ pc = "done"
    /\ args.num_samples = 2
    /\ Len(calls) = 2
    /\ calls[2].shape[1] = 2

\* C5: in_between without a mask file: the mask of sample i is False exactly at the
\* frames start_idx <= f < end_idx, for every joint and feature, and
\* gt_frames_per_sample[i] as a set is the set of the frames where the mask is True.
C5_InBetweenMask ==
    (args.edit_mode = "in_between" /\ args.mask_path = "" /\ "inpainting_mask" \in DOMAIN y) =>
        \A i \in DOMAIN lengths :
            LET start_idx == PyIntMul(args.prefix_end, lengths[i])
                end_idx == PyIntMul(args.suffix_start, lengths[i])
                mask == y["inpainting_mask"][i]
            IN /\ \A j \in DOMAIN mask : \A c \in DOMAIN mask[j] :
                     /\ DOMAIN mask[j][c] = 0..(max_frames - 1)
                     /\ \A f \in 0..(max_frames - 1) :
                           mask[j][c][f] = ~(start_idx <= f /\ f < end_idx)
               /\ ElemsOf(gt_frames_per_sample[i]) =
                     {f \in 0..(max_frames - 1) : mask[0][0][f]}

\* C6: the hstack command of sample i lists num_repetitions + 1 input files, the count
\* it declares: input_motionNN.mp4, then sampleNN_repRR.mp4 for rep 0, 1, ... in order;
\* every input file is in the recreated output directory when the command is issued.
C6_HstackInputs ==
    \A k \in 1..Len(cmds) :
        LET cmd == cmds[k]
        IN /\ Len(cmd.inputs) = args.num_repetitions + 1
           /\ cmd.declared = Len(cmd.inputs)
           /\ cmd.inputs[1] = InputMotionFile(k - 1)
           /\ \A r \in 0..(args.num_repetitions - 1) : cmd.inputs[r + 2] = RepFile(k - 1, r)
           /\ cmd.output = AllRepFile(k - 1)
           /\ ElemsOf(cmd.inputs) \subseteq fs.files

====
